---- MODULE Spec2Model ----
(***************************************************************************)
(* A model of addressbook.py: the field validators, Record, AddressBook    *)
(* and the edit/delete operations main() performs on a stored record.      *)
(*                                                                         *)
(* Python strings are sequences of one-character strings.  Python objects  *)
(* whose class matters to the code (a str against a Phone, a str against a *)
(* Birthday) carry their class in a field t.  An exception an operation    *)
(* raises is recorded in op.exc; "none" means the call returned.           *)
(***************************************************************************)
EXTENDS Integers, Sequences, FiniteSets, TLC

VARIABLES rec, book, file, now, op

vars == <<rec, book, file, now, op>>

(***************************************************************************)
(* Bounds                                                                  *)
(***************************************************************************)
MaxPhones == 3
MaxEntries == 2
MaxRecords == 2
MaxTicks == 2
MaxBookPhones == 2

(***************************************************************************)
(* Characters and strings                                                  *)
(***************************************************************************)
Rep(c, n) == [i \in 1..n |-> c]

UpperSeq == <<"A","B","C","D","E","F","G","H","I","J","K","L","M",
              "N","O","P","Q","R","S","T","U","V","W","X","Y","Z">>

LowerSeq == <<"a","b","c","d","e","f","g","h","i","j","k","l","m",
              "n","o","p","q","r","s","t","u","v","w","x","y","z">>

DigitSeq == <<"0","1","2","3","4","5","6","7","8","9">>

Range(s) == {s[i] : i \in DOMAIN s}

Digits == Range(DigitSeq)

WordChars == Range(UpperSeq) \cup Range(LowerSeq) \cup Digits \cup {"_"}

SpaceChars == {" ", "\t", "\n", "\r", "\f"}

\* \d, \w and \s over the ASCII characters
IsDigit(c) == c \in Digits

IsWord(c) == c \in WordChars

IsSpace(c) == c \in SpaceChars

LowerChar(c) ==
  IF \E i \in DOMAIN UpperSeq : UpperSeq[i] = c
    THEN LowerSeq[CHOOSE i \in DOMAIN UpperSeq : UpperSeq[i] = c]
    ELSE c

Lower(s) == [i \in DOMAIN s |-> LowerChar(s[i])]

\* Python's  q in s  for strings
Contains(s, q) ==
  \E i \in 0..(Len(s) - Len(q)) : \A j \in 1..Len(q) : s[i + j] = q[j]

\* A pattern made of literals and \d, written with "d" for \d, anchored ^...$.
MatchesShape(s, shape) ==
  /\ Len(s) = Len(shape)
  /\ \A i \in 1..Len(shape) :
       IF shape[i] = "d" THEN IsDigit(s[i]) ELSE s[i] = shape[i]

\* re.match(r'^...$', s): $ matches at the end and before a final newline.
ReMatch(s, shape) ==
  \/ MatchesShape(s, shape)
  \/ /\ Len(s) = Len(shape) + 1
     /\ s[Len(s)] = "\n"
     /\ MatchesShape(SubSeq(s, 1, Len(s) - 1), shape)

ShapeIntlDashed == <<"+","d","d","-","d","d","d","-">> \o Rep("d", 7)

ShapeIntl == <<"+">> \o Rep("d", 12)

ShapeDashed == <<"d","d","d","-">> \o Rep("d", 7)

ShapePlain == Rep("d", 10)

validate_phone(value) ==
  \/ ReMatch(value, ShapeIntlDashed) \/ ReMatch(value, ShapeIntl)
  \/ ReMatch(value, ShapeDashed) \/ ReMatch(value, ShapePlain)

\* (\.\w+)+ over a whole string
IsDotLabels(y) ==
  /\ Len(y) >= 2
  /\ y[1] = "."
  /\ y[Len(y)] # "."
  /\ \A i \in 1..Len(y) : IsWord(y[i]) \/ y[i] = "."
  /\ \A i \in 1..(Len(y) - 1) : ~(y[i] = "." /\ y[i + 1] = ".")

IsLocalChars(x) ==
  /\ Len(x) >= 1
  /\ \A i \in 1..Len(x) : IsWord(x[i]) \/ x[i] \in {".", "-"}

EmailBody(s) ==
  \E a \in 1..Len(s) :
    /\ s[a] = "@"
    /\ IsLocalChars(SubSeq(s, 1, a - 1))
    /\ \E k \in (a + 1)..Len(s) :
         /\ IsLocalChars(SubSeq(s, a + 1, k))
         /\ IsDotLabels(SubSeq(s, k + 1, Len(s)))

validate_email(value) ==
  \/ EmailBody(value)
  \/ /\ Len(value) >= 1
     /\ value[Len(value)] = "\n"
     /\ EmailBody(SubSeq(value, 1, Len(value) - 1))

\* re.split(r'[,\s]+', s)
IsSep(c) == c = "," \/ IsSpace(c)

RECURSIVE SplitFrom(_, _, _)
SplitFrom(s, i, cur) ==
  IF i > Len(s) THEN <<cur>>
  ELSE IF IsSep(s[i])
    THEN LET rest == {j \in (i + 1)..Len(s) : ~IsSep(s[j])}
             nxt == IF rest = {} THEN Len(s) + 1
                    ELSE CHOOSE j \in rest : \A k \in rest : j <= k
         IN <<cur>> \o SplitFrom(s, nxt, <<>>)
    ELSE SplitFrom(s, i + 1, Append(cur, s[i]))

Split(s) == SplitFrom(s, 1, <<>>)

(***************************************************************************)
(* Python values                                                           *)
(***************************************************************************)
StrV(s) == [t |-> "str", v |-> s]

PhoneV(s) == [t |-> "Phone", v |-> s]

\* str(x) for a str and for a Field whose __str__ returns self.value
Str(x) == x.v

NoDate == [y |-> 0, m |-> 0, d |-> 0, h |-> 0]

None == [t |-> "None", dt |-> NoDate, s |-> <<>>]

BirthdayV(dt) == [t |-> "Birthday", dt |-> dt, s |-> <<>>]

DateStr(s) == [t |-> "str", dt |-> NoDate, s |-> s]

Unbound ==
  [name |-> <<>>, address |-> <<>>, phones |-> <<>>, emails |-> <<>>,
   birthday |-> [t |-> "unbound", dt |-> NoDate, s |-> <<>>]]

IsBound(r) == r.birthday.t # "unbound"

NoOp ==
  [name |-> "init", key |-> <<>>, arg |-> <<>>, arg2 |-> <<>>,
   exc |-> "none", msg |-> "", ret |-> <<>>]

NoneRet == [fmt |-> "None", a |-> <<>>, b |-> <<>>]

FmtAdded(phone, name) ==
  [fmt |-> "Phone number {phone} added for {self.name}", a |-> phone, b |-> name]

FmtError(e) == [fmt |-> "Error: {e}", a |-> e, b |-> <<>>]

FmtUpdated(old, new) ==
  [fmt |-> "Phone number updated for {self.name} Old phone number: {old_phone} New phone number: {new_phone}",
   a |-> old, b |-> new]

FmtNotFound(old, name) ==
  [fmt |-> "Error: Old phone number {old_phone} not found in {self.name}'s record.",
   a |-> old, b |-> name]

(***************************************************************************)
(* Record                                                                  *)
(***************************************************************************)
Result(ok, phones, bad) == [ok |-> ok, phones |-> phones, bad |-> bad]

\* ScanTokens with an invalid token skipped instead of raising
RECURSIVE ScanTokensSkipInvalid(_, _)
ScanTokensSkipInvalid(toks, acc) ==
  IF toks = <<>> THEN Result(TRUE, acc, <<>>)
  ELSE IF validate_phone(Head(toks))
    THEN ScanTokensSkipInvalid(Tail(toks), Append(acc, StrV(Head(toks))))
    ELSE ScanTokensSkipInvalid(Tail(toks), acc)

\* the inner loop of process_phones over the tokens of one entry
RECURSIVE ScanTokens(_, _)
ScanTokens(toks, acc) ==
  IF toks = <<>> THEN Result(TRUE, acc, <<>>)
  ELSE IF validate_phone(Head(toks))
    THEN ScanTokens(Tail(toks), Append(acc, StrV(Head(toks))))
    ELSE Result(FALSE, <<>>, Head(toks))

\* the outer loop of process_phones over the entries
RECURSIVE ScanEntries(_, _)
ScanEntries(phones, acc) ==
  IF phones = <<>> THEN Result(TRUE, acc, <<>>)
  ELSE LET r == ScanTokens(Split(Str(Head(phones))), acc)
       IN IF r.ok THEN ScanEntries(Tail(phones), r.phones) ELSE r

process_phones(phones) == ScanEntries(phones, <<>>)

\* Record.__init__: ok = FALSE stands for the ValueError naming the token bad
RecordInit(name, address, phones, emails, birthday) ==
  LET p == process_phones(phones)
  IN [ok |-> p.ok, bad |-> p.bad,
      rec |-> [name |-> Str(name), address |-> Str(address),
               phones |-> p.phones,
               emails |-> [i \in DOMAIN emails |-> Str(emails[i])],
               birthday |-> birthday]]

\* update_record_phones without the str() conversion
update_record_phones_keep(phones) == phones

update_record_phones(phones) == [i \in DOMAIN phones |-> StrV(Str(phones[i]))]

add_phone(r, phone) ==
  IF validate_phone(phone)
    THEN [rec |-> [r EXCEPT !.phones =
                     update_record_phones(Append(r.phones, PhoneV(phone)))],
          exc |-> "none", ret |-> FmtAdded(phone, r.name)]
    ELSE [rec |-> r, exc |-> "none",
          ret |-> FmtError(<<"Invalid phone number">>)]

\* p.value exists on a Field, not on a str
HasValue(p) == p.t # "str"

delete_phone(r, phone) ==
  IF \E i \in DOMAIN r.phones : ~HasValue(r.phones[i])
    THEN [rec |-> r, exc |-> "AttributeError", ret |-> NoneRet]
    ELSE [rec |-> [r EXCEPT !.phones =
                     SelectSeq(r.phones, LAMBDA p : p.v # phone)],
          exc |-> "none", ret |-> NoneRet]

\* phone == old_phone for a stored entry and a str argument
EqStr(p, s) == p.t = "str" /\ p.v = s

\* edit_phone replacing every entry equal to old_phone
edit_phone_all(r, old_phone, new_phone) ==
  IF \E i \in DOMAIN r.phones : EqStr(r.phones[i], old_phone)
    THEN [rec |-> [r EXCEPT !.phones =
                     [i \in DOMAIN r.phones |->
                        IF EqStr(r.phones[i], old_phone) THEN StrV(new_phone)
                        ELSE r.phones[i]]],
          exc |-> "none", ret |-> FmtUpdated(old_phone, new_phone)]
    ELSE [rec |-> r, exc |-> "none", ret |-> FmtNotFound(old_phone, r.name)]

edit_phone(r, old_phone, new_phone) ==
  LET hits == {i \in DOMAIN r.phones : EqStr(r.phones[i], old_phone)}
  IN IF hits # {}
       THEN LET i == CHOOSE k \in hits : \A j \in hits : k <= j
            IN [rec |-> [r EXCEPT !.phones[i] = StrV(new_phone)],
                exc |-> "none", ret |-> FmtUpdated(old_phone, new_phone)]
       ELSE [rec |-> r, exc |-> "none",
             ret |-> FmtNotFound(old_phone, r.name)]

(***************************************************************************)
(* datetime: y, m, d and an hour h standing for the time of day            *)
(***************************************************************************)
IsLeap(y) == (y % 4 = 0 /\ y % 100 # 0) \/ y % 400 = 0

DaysInMonth(y, m) ==
  IF m = 2 THEN (IF IsLeap(y) THEN 29 ELSE 28)
  ELSE IF m \in {4, 6, 9, 11} THEN 30 ELSE 31

ValidDate(y, m, d) == y >= 1 /\ y <= 9999 /\ m \in 1..12 /\ d \in 1..DaysInMonth(y, m)

RECURSIVE DaysBeforeMonth(_, _)
DaysBeforeMonth(y, m) ==
  IF m <= 1 THEN 0 ELSE DaysBeforeMonth(y, m - 1) + DaysInMonth(y, m - 1)

DaysBeforeYear(y) ==
  365 * (y - 1) + ((y - 1) \div 4) - ((y - 1) \div 100) + ((y - 1) \div 400)

\* date.toordinal()
ToOrdinal(dt) == DaysBeforeYear(dt.y) + DaysBeforeMonth(dt.y, dt.m) + dt.d

DateTime(y, m, d, h) == [y |-> y, m |-> m, d |-> d, h |-> h]

\* datetime.date()
DateOf(dt) == DateTime(dt.y, dt.m, dt.d, 0)

\* a <= b on datetimes
DtLe(a, b) ==
  \/ a.y < b.y
  \/ a.y = b.y /\ a.m < b.m
  \/ a.y = b.y /\ a.m = b.m /\ a.d < b.d
  \/ a.y = b.y /\ a.m = b.m /\ a.d = b.d /\ a.h <= b.h

DigitChar(n) == DigitSeq[n + 1]

DigitVal(c) == (CHOOSE i \in DOMAIN DigitSeq : DigitSeq[i] = c) - 1

RECURSIVE Num(_)
Num(s) == IF s = <<>> THEN 0 ELSE 10 * Num(SubSeq(s, 1, Len(s) - 1)) + DigitVal(s[Len(s)])

AllDigits(s) == \A i \in DOMAIN s : IsDigit(s[i])

\* value.strftime('%Y-%m-%d'), for the four-digit years 1000..9999
StrfTime(dt) ==
  << DigitChar(dt.y \div 1000), DigitChar((dt.y \div 100) % 10),
     DigitChar((dt.y \div 10) % 10), DigitChar(dt.y % 10), "-",
     DigitChar(dt.m \div 10), DigitChar(dt.m % 10), "-",
     DigitChar(dt.d \div 10), DigitChar(dt.d % 10) >>

\* datetime.strptime(s, "%Y-%m-%d"): four digits, then one or two digits for
\* the month and for the day; ok = FALSE stands for the ValueError
StrpTime(s) ==
  LET dashes == {i \in DOMAIN s : s[i] = "-"}
  IN IF Cardinality(dashes) # 2 THEN [ok |-> FALSE, dt |-> NoDate]
     ELSE LET i1 == CHOOSE i \in dashes : \A j \in dashes : i <= j
              i2 == CHOOSE i \in dashes : \A j \in dashes : j <= i
              ys == SubSeq(s, 1, i1 - 1)
              ms == SubSeq(s, i1 + 1, i2 - 1)
              ds == SubSeq(s, i2 + 1, Len(s))
          IN IF /\ Len(ys) = 4 /\ Len(ms) \in 1..2 /\ Len(ds) \in 1..2
                /\ AllDigits(ys) /\ AllDigits(ms) /\ AllDigits(ds)
                /\ ValidDate(Num(ys), Num(ms), Num(ds))
               THEN [ok |-> TRUE, dt |-> DateTime(Num(ys), Num(ms), Num(ds), 0)]
               ELSE [ok |-> FALSE, dt |-> NoDate]

\* Birthday.validate_birthday, with datetime.now() = clock
validate_birthday(value, clock) == DtLe(value, clock)

\* truth value of record.birthday: None is false, a Birthday and a non-empty
\* str are true
Truthy(b) == b.t = "Birthday" \/ (b.t = "str" /\ b.s # <<>>)

DaysResult(exc, isNone, days) == [exc |-> exc, isNone |-> isNone, days |-> days]

\* the date arithmetic shared by days_to_birthday and
\* get_upcoming_birthday_contacts; datetime(y, m, d) raises ValueError for a
\* day that year does not have
DaysLeft(bdt, today) ==
  IF ~ValidDate(today.y, bdt.m, bdt.d) THEN DaysResult("ValueError", FALSE, 0)
  ELSE LET this == DateTime(today.y, bdt.m, bdt.d, 0)
       IN IF ToOrdinal(today) > ToOrdinal(this)
            THEN IF ~ValidDate(today.y + 1, bdt.m, bdt.d)
                   THEN DaysResult("ValueError", FALSE, 0)
                   ELSE DaysResult("none", FALSE,
                          ToOrdinal(DateTime(today.y + 1, bdt.m, bdt.d, 0))
                            - ToOrdinal(today))
            ELSE DaysResult("none", FALSE, ToOrdinal(this) - ToOrdinal(today))

days_to_birthday(r, clock) ==
  IF ~Truthy(r.birthday) THEN DaysResult("none", TRUE, 0)
  ELSE IF r.birthday.t = "str" THEN DaysResult("AttributeError", FALSE, 0)
  ELSE DaysLeft(r.birthday.dt, DateOf(clock))

(***************************************************************************)
(* AddressBook: a dict, modelled as the sequence of its items in insertion *)
(* order; the key of an item identifies the stored Record object           *)
(***************************************************************************)
Item(k, r) == [key |-> k, rec |-> r]

HasKey(b, k) == \E i \in DOMAIN b : b[i].key = k

IndexOf(b, k) == CHOOSE i \in DOMAIN b : b[i].key = k

add_record(b, r) ==
  IF HasKey(b, r.name)
    THEN [b EXCEPT ![IndexOf(b, r.name)].rec = r]
    ELSE Append(b, Item(r.name, r))

\* del book.data[name]
DelKey(b, k) == SelectSeq(b, LAMBDA it : it.key # k)

\* the JSON object json.dump writes for one record.__dict__
JsonOf(r) ==
  [name |-> r.name, address |-> r.address,
   phones |-> [i \in DOMAIN r.phones |-> r.phones[i].v],
   emails |-> r.emails,
   birthday |-> r.birthday]

NoFile == [state |-> "absent", records |-> <<>>]

EmptyFile == [state |-> "empty", records |-> <<>>]

\* the loop of save_to_file over data["records"]; the dicts are the records'
\* own __dict__, so the assignment changes the stored Record
RECURSIVE SaveLoop(_, _)
SaveLoop(b, i) ==
  IF i > Len(b) THEN [book |-> b, exc |-> "none"]
  ELSE IF Truthy(b[i].rec.birthday)
    THEN IF b[i].rec.birthday.t = "str"
           THEN [book |-> b, exc |-> "AttributeError"]
           ELSE SaveLoop([b EXCEPT ![i].rec.birthday =
                            DateStr(StrfTime(b[i].rec.birthday.dt))], i + 1)
    ELSE SaveLoop(b, i + 1)

\* open(filename, 'w') truncates the file before the loop runs
save_to_file(b) ==
  LET r == SaveLoop(b, 1)
  IN [book |-> r.book, exc |-> r.exc,
      file |-> IF r.exc = "none"
                 THEN [state |-> "written",
                       records |-> [i \in DOMAIN b |-> JsonOf(r.book[i].rec)]]
                 ELSE EmptyFile]

LoadResult(exc, msg, b) == [exc |-> exc, msg |-> msg, book |-> b]

\* the body of the loop of load_from_file for one record_data
LoadOne(d, clock) ==
  IF \E i \in DOMAIN d.phones : ~validate_phone(d.phones[i])
    THEN [ok |-> FALSE, msg |-> "Invalid phone number", rec |-> Unbound]
  ELSE IF \E i \in DOMAIN d.emails : ~validate_email(d.emails[i])
    THEN [ok |-> FALSE, msg |-> "Invalid email", rec |-> Unbound]
  ELSE LET p == IF Truthy(d.birthday) THEN StrpTime(d.birthday.s)
                ELSE [ok |-> TRUE, dt |-> NoDate]
       IN IF ~p.ok
            THEN [ok |-> FALSE, msg |-> "strptime", rec |-> Unbound]
          ELSE IF Truthy(d.birthday) /\ ~validate_birthday(p.dt, clock)
            THEN [ok |-> FALSE, msg |-> "Invalid birthday", rec |-> Unbound]
          ELSE LET r == RecordInit(StrV(d.name), StrV(d.address),
                          [i \in DOMAIN d.phones |-> PhoneV(d.phones[i])],
                          [i \in DOMAIN d.emails |-> StrV(d.emails[i])],
                          IF Truthy(d.birthday) THEN BirthdayV(p.dt) ELSE None)
               IN IF r.ok THEN [ok |-> TRUE, msg |-> "", rec |-> r.rec]
                  ELSE [ok |-> FALSE, msg |-> "Error: Invalid phone number: {phone_number}",
                        rec |-> Unbound]

RECURSIVE LoadLoop(_, _, _, _)
LoadLoop(records, i, acc, clock) ==
  IF i > Len(records) THEN LoadResult("none", "", acc)
  ELSE LET r == LoadOne(records[i], clock)
       IN IF r.ok THEN LoadLoop(records, i + 1, add_record(acc, r.rec), clock)
          ELSE LoadResult("ValueError", r.msg, <<>>)

load_from_file(f, clock) ==
  IF f.state = "absent" THEN LoadResult("none", "", <<>>)
  ELSE IF f.state = "empty" THEN LoadResult("JSONDecodeError", "", <<>>)
  ELSE LoadLoop(f.records, 1, <<>>, clock)

\* search_records: the result is the list of found records, each named by
\* the key it is stored under
RECURSIVE SearchLoop(_, _, _, _, _)
SearchLoop(b, i, query, found_records, found_record_names) ==
  IF i > Len(b) THEN found_records
  ELSE LET record == b[i].rec
           byName == Contains(Lower(record.name), query)
                       /\ record.name \notin found_record_names
           f1 == IF byName THEN Append(found_records, b[i].key) ELSE found_records
           n1 == IF byName THEN found_record_names \cup {record.name}
                 ELSE found_record_names
           byPhone == (\E j \in DOMAIN record.phones :
                         Contains(Lower(record.phones[j].v), query))
                       /\ record.name \notin n1
           f2 == IF byPhone THEN Append(f1, b[i].key) ELSE f1
           n2 == IF byPhone THEN n1 \cup {record.name} ELSE n1
           byEmail == \E j \in DOMAIN record.emails :
                         Contains(Lower(record.emails[j]), query)
           f3 == IF byEmail THEN Append(f2, b[i].key) ELSE f2
       IN SearchLoop(b, i + 1, query, f3, n2)

search_records(b, query) == SearchLoop(b, 1, Lower(query), <<>>, {})

UpResult(b, exc, ret) == [book |-> b, exc |-> exc, ret |-> ret]

\* get_upcoming_birthday_contacts; a str birthday is turned back into a
\* Birthday in the stored Record
RECURSIVE UpcomingLoop(_, _, _, _, _)
UpcomingLoop(b, i, days, clock, acc) ==
  IF i > Len(b) THEN UpResult(b, "none", acc)
  ELSE IF ~Truthy(b[i].rec.birthday) THEN UpcomingLoop(b, i + 1, days, clock, acc)
  ELSE LET isStr == b[i].rec.birthday.t = "str"
           p == IF isStr THEN StrpTime(b[i].rec.birthday.s)
                ELSE [ok |-> TRUE, dt |-> b[i].rec.birthday.dt]
       IN IF ~p.ok \/ (isStr /\ ~validate_birthday(p.dt, clock))
            THEN UpResult(b, "ValueError", <<>>)
          ELSE LET b1 == [b EXCEPT ![i].rec.birthday = BirthdayV(p.dt)]
                   today == DateOf(clock)
                   bm == p.dt.m
                   bd == p.dt.d
               IN IF ~ValidDate(today.y, bm, bd) THEN UpResult(b1, "ValueError", <<>>)
                  ELSE LET this == DateTime(today.y, bm, bd, 0)
                           past == ToOrdinal(today) > ToOrdinal(this)
                       IN IF past /\ ~ValidDate(today.y + 1, bm, bd)
                            THEN UpResult(b1, "ValueError", <<>>)
                          ELSE LET next_birthday ==
                                     IF past THEN DateTime(today.y + 1, bm, bd, 0)
                                     ELSE this
                                   days_left == ToOrdinal(next_birthday) - ToOrdinal(today)
                               IN UpcomingLoop(b1, i + 1, days, clock,
                                    IF days_left = days THEN Append(acc, b[i].key)
                                    ELSE acc)

get_upcoming_birthday_contacts(b, days, clock) == UpcomingLoop(b, 1, days, clock, <<>>)

(***************************************************************************)
(* Inputs                                                                  *)
(***************************************************************************)
P10 == Rep("0", 10)

PDashed == <<"3","8","0","-","1","2","3","4","5","6","7">>

PIntl == <<"+","3","8">> \o Rep("0", 10)

PIntlDashed == <<"+","3","8","-","0","0","0","-">> \o Rep("0", 7)

PNine == Rep("0", 9)

PBad == <<"b","a","d">>

P10NL == P10 \o <<"\n">>

PTwo == P10 \o <<",", " ">> \o PDashed

PTrail == P10 \o <<" ">>

Ann == <<"A","n","n">>

Bob == <<"B","o","b">>

MainSt == <<"M","a","i","n">>

ElmSt == <<"E","l","m">>

AnnEmail == <<"a","n","n","@","x",".","c","o","m">>

BobEmail == <<"b","o","b","@","y",".","o","r","g">>

BadEmail == <<"a","n","n","@","x">>

Op(name, key, arg, arg2, exc, msg, ret) ==
  [name |-> name, key |-> key, arg |-> arg, arg2 |-> arg2,
   exc |-> exc, msg |-> msg, ret |-> ret]

SeqsUpTo(S, n) == UNION {[1..k -> S] : k \in 0..n}

(***************************************************************************)
(* A Record and its phone operations                                       *)
(***************************************************************************)
ConstructEntries == {P10, PTwo, PBad, PTrail}

AddInputs == {P10, PDashed, PIntl, PIntlDashed, PNine, P10NL}

EditOld == {P10, PDashed, PBad}

EditNew == {PDashed, PBad}

Extras == {[emails |-> <<>>, birthday |-> None],
           [emails |-> <<AnnEmail>>, birthday |-> BirthdayV(DateTime(2000, 5, 1, 0))]}

InitRecord ==
  /\ rec = Unbound
  /\ book = <<>>
  /\ file = NoFile
  /\ now = DateTime(2024, 2, 28, 12)
  /\ op = NoOp

\* r = Record(Name("Ann"), Address("Main"), phones, emails, birthday)
Construct ==
  /\ ~IsBound(rec)
  /\ \E phones \in SeqsUpTo(ConstructEntries, MaxEntries), x \in Extras :
       LET r == RecordInit(StrV(Ann), StrV(MainSt),
                           [i \in DOMAIN phones |-> StrV(phones[i])],
                           [i \in DOMAIN x.emails |-> StrV(x.emails[i])],
                           x.birthday)
       IN /\ rec' = IF r.ok THEN r.rec ELSE rec
          /\ op' = Op("Record", <<>>, phones, <<>>,
                      IF r.ok THEN "none" ELSE "ValueError",
                      IF r.ok THEN "" ELSE "Error: Invalid phone number: {phone_number}",
                      r.bad)
  /\ UNCHANGED <<book, file, now>>

AddPhone ==
  /\ IsBound(rec)
  /\ Len(rec.phones) < MaxPhones
  /\ \E phone \in AddInputs :
       LET r == add_phone(rec, phone)
       IN /\ rec' = r.rec
          /\ op' = Op("add_phone", <<>>, phone, <<>>, r.exc, "", r.ret)
  /\ UNCHANGED <<book, file, now>>

EditPhone ==
  /\ IsBound(rec)
  /\ \E old_phone \in EditOld, new_phone \in EditNew :
       LET r == edit_phone(rec, old_phone, new_phone)
       IN /\ rec' = r.rec
          /\ op' = Op("edit_phone", <<>>, old_phone, new_phone, r.exc, "", r.ret)
  /\ UNCHANGED <<book, file, now>>

DeletePhone ==
  /\ IsBound(rec)
  /\ \E phone \in EditOld :
       LET r == delete_phone(rec, phone)
       IN /\ rec' = r.rec
          /\ op' = Op("delete_phone", <<>>, phone, <<>>, r.exc, "", r.ret)
  /\ UNCHANGED <<book, file, now>>

Next == Construct \/ AddPhone \/ EditPhone \/ DeletePhone

Spec == InitRecord /\ [][Next]_vars

(***************************************************************************)
(* The address book as main() and the callers of its methods drive it      *)
(***************************************************************************)
B_Leap == <<"2","0","2","0","-","0","2","-","2","9">>

B_March == <<"2","0","0","0","-","0","3","-","0","1">>

B_Future == <<"2","0","3","0","-","0","1","-","0","1">>

Names == {Ann, Bob}

PhoneInputs == {P10, PBad}

EmailInputs == {AnnEmail, BadEmail}

BirthdayInputs == {B_Leap, B_March, B_Future}

Queries == {<<"A","N","N">>, <<"0","0","0">>, <<"z">>}

DaysInputs == {0, 1, 2}

StartClock == DateTime(2024, 2, 28, 12)

InitBook ==
  /\ rec = Unbound
  /\ book = <<>>
  /\ file = NoFile
  /\ now = StartClock
  /\ op = NoOp

\* Birthday(datetime.strptime(s, "%Y-%m-%d")); ok = FALSE is the ValueError
MakeBirthday(s, clock) ==
  LET p == StrpTime(s)
  IN IF p.ok /\ validate_birthday(p.dt, clock)
       THEN [ok |-> TRUE, val |-> BirthdayV(p.dt)]
       ELSE [ok |-> FALSE, val |-> None]

\* choice "1": the fields are validated, the Record is built and added; a
\* ValueError is caught and reported
AddContact ==
  /\ \E name \in Names, address \in {MainSt}, phone \in PhoneInputs,
        email \in EmailInputs, birthday \in BirthdayInputs :
       /\ HasKey(book, name) \/ Len(book) < MaxRecords
       /\ name # <<>> /\ address # <<>> /\ phone # <<>>
       /\ email # <<>> /\ birthday # <<>>
       /\ LET bd == MakeBirthday(birthday, now)
              valid == validate_phone(phone) /\ validate_email(email) /\ bd.ok
              r == RecordInit(StrV(name), StrV(address), <<PhoneV(phone)>>,
                              <<StrV(email)>>, bd.val)
          IN IF valid /\ r.ok
               THEN /\ book' = add_record(book, r.rec)
                    /\ op' = Op("add_contact", name, <<>>, <<>>, "none",
                                "Contact {name} added successfully!", <<>>)
               ELSE /\ book' = book
                    /\ op' = Op("add_contact", name, <<>>, <<>>, "none",
                                "Please enter valid data.", <<>>)
  /\ UNCHANGED <<rec, file, now>>

\* choice "2", "1": record.name = new_name
EditName ==
  /\ \E name \in Names, new_name \in Names :
       /\ HasKey(book, name)
       /\ book' = [book EXCEPT ![IndexOf(book, name)].rec.name = new_name]
       /\ op' = Op("edit_name", name, new_name, <<>>, "none", "", <<>>)
  /\ UNCHANGED <<rec, file, now>>

\* choice "2", "2": record.address = new_address
EditAddress ==
  /\ \E name \in Names, new_address \in {ElmSt} :
       /\ HasKey(book, name)
       /\ book' = [book EXCEPT ![IndexOf(book, name)].rec.address = new_address]
       /\ op' = Op("edit_address", name, new_address, <<>>, "none", "", <<>>)
  /\ UNCHANGED <<rec, file, now>>

\* choice "2", "3", "1": record.edit_phone(old_phone, new_phone)
EditContactPhone ==
  /\ \E name \in Names, old_phone \in PhoneInputs, new_phone \in PhoneInputs :
       /\ HasKey(book, name)
       /\ LET i == IndexOf(book, name)
              r == edit_phone(book[i].rec, old_phone, new_phone)
          IN /\ book' = [book EXCEPT ![i].rec = r.rec]
             /\ op' = Op("edit_phone", name, old_phone, new_phone, r.exc, "", r.ret)
  /\ UNCHANGED <<rec, file, now>>

\* choice "2", "3", "2": record.add_phone(new_phone)
AddContactPhone ==
  /\ \E name \in Names, new_phone \in PhoneInputs :
       /\ HasKey(book, name)
       /\ LET i == IndexOf(book, name)
              r == add_phone(book[i].rec, new_phone)
          IN /\ Len(book[i].rec.phones) < MaxBookPhones
             /\ book' = [book EXCEPT ![i].rec = r.rec]
             /\ op' = Op("add_phone", name, new_phone, <<>>, r.exc, "", r.ret)
  /\ UNCHANGED <<rec, file, now>>

\* choice "2", "4": record.emails[0] = new_email
EditEmail ==
  /\ \E name \in Names, new_email \in {BobEmail} :
       /\ HasKey(book, name)
       /\ LET i == IndexOf(book, name)
          IN IF book[i].rec.emails = <<>>
               THEN /\ book' = book
                    /\ op' = Op("edit_email", name, new_email, <<>>, "IndexError", "", <<>>)
               ELSE /\ book' = [book EXCEPT ![i].rec.emails[1] = new_email]
                    /\ op' = Op("edit_email", name, new_email, <<>>, "none", "", <<>>)
  /\ UNCHANGED <<rec, file, now>>

\* choice "2", "5": an invalid date is reported and asked for again
EditBirthday ==
  /\ \E name \in Names, new_birthday \in BirthdayInputs :
       /\ HasKey(book, name)
       /\ LET bd == MakeBirthday(new_birthday, now)
          IN IF bd.ok
               THEN /\ book' = [book EXCEPT ![IndexOf(book, name)].rec.birthday = bd.val]
                    /\ op' = Op("edit_birthday", name, new_birthday, <<>>, "none",
                                "Birthday updated for {record.name}", <<>>)
               ELSE /\ book' = book
                    /\ op' = Op("edit_birthday", name, new_birthday, <<>>, "none",
                                "Please enter a valid birthday (YYYY-MM-DD).", <<>>)
  /\ UNCHANGED <<rec, file, now>>

\* choice "3": del book.data[name]
DeleteContact ==
  /\ \E name \in Names :
       /\ HasKey(book, name)
       /\ book' = DelKey(book, name)
       /\ op' = Op("delete_contact", name, <<>>, <<>>, "none", "", <<>>)
  /\ UNCHANGED <<rec, file, now>>

\* choice "7": book.search_records(query)
Search ==
  /\ \E query \in Queries :
       op' = Op("search_records", <<>>, query, <<>>, "none", "",
                search_records(book, query))
  /\ UNCHANGED <<rec, book, file, now>>

\* choice "5": book.save_to_file(filename); op.arg keeps the book as it was
\* when the call was made
Save ==
  /\ LET r == save_to_file(book)
     IN /\ book' = r.book
        /\ file' = r.file
        /\ op' = Op("save_to_file", <<>>, book, <<>>, r.exc, "", <<>>)
  /\ UNCHANGED <<rec, now>>

\* choice "6": book = AddressBook.load_from_file(filename)
Load ==
  /\ LET r == load_from_file(file, now)
     IN /\ book' = IF r.exc = "none" THEN r.book ELSE book
        /\ op' = Op("load_from_file", <<>>, <<>>, <<>>, r.exc, r.msg, <<>>)
  /\ UNCHANGED <<rec, file, now>>

\* choice "8": book.get_upcoming_birthday_contacts(days)
Upcoming ==
  /\ \E days \in DaysInputs :
       LET r == get_upcoming_birthday_contacts(book, days, now)
       IN /\ book' = r.book
          /\ op' = Op("get_upcoming_birthday_contacts", <<>>, days, <<>>,
                      r.exc, "", r.ret)
  /\ UNCHANGED <<rec, file, now>>

\* book.data[name].days_to_birthday()
DaysToBirthday ==
  /\ \E name \in Names :
       /\ HasKey(book, name)
       /\ LET r == days_to_birthday(book[IndexOf(book, name)].rec, now)
          IN op' = Op("days_to_birthday", name, <<>>, <<>>, r.exc, "", r)
  /\ UNCHANGED <<rec, book, file, now>>

\* midnight passes: datetime.now() is one day later
NextDay(dt) ==
  IF dt.d < DaysInMonth(dt.y, dt.m) THEN DateTime(dt.y, dt.m, dt.d + 1, dt.h)
  ELSE IF dt.m < 12 THEN DateTime(dt.y, dt.m + 1, 1, dt.h)
  ELSE DateTime(dt.y + 1, 1, 1, dt.h)

Tick ==
  /\ ToOrdinal(now) - ToOrdinal(StartClock) < MaxTicks
  /\ now' = NextDay(now)
  /\ op' = Op("tick", <<>>, <<>>, <<>>, "none", "", <<>>)
  /\ UNCHANGED <<rec, book, file>>

\* names, addresses, emails, deletion and search
NextBook ==
  \/ AddContact \/ EditName \/ EditAddress \/ EditEmail
  \/ DeleteContact \/ Search

SpecBook == InitBook /\ [][NextBook]_vars

\* the file
NextStore == AddContact \/ EditContactPhone \/ Save \/ Load \/ Upcoming

SpecStore == InitBook /\ [][NextStore]_vars

\* birthdays under a clock that advances
NextBirthday ==
  \/ AddContact \/ AddContactPhone \/ EditBirthday \/ Tick
  \/ DaysToBirthday \/ Upcoming

SpecBirthday == InitBook /\ [][NextBirthday]_vars

(***************************************************************************)
(* Properties of Record                                                    *)
(***************************************************************************)
IsErrorMessage(m) ==
  m.fmt \in {FmtError(<<>>).fmt, FmtNotFound(<<>>, <<>>).fmt}

IsSuccessMessage(m) ==
  m.fmt \in {FmtAdded(<<>>, <<>>).fmt, FmtUpdated(<<>>, <<>>).fmt}

AllStr(phones) == \A i \in DOMAIN phones : phones[i].t = "str"

\* the entries of phones that are not the string s, in order
Without(phones, s) == SelectSeq(phones, LAMBDA p : p # StrV(s))

RECURSIVE AllTokens(_)
AllTokens(entries) ==
  IF entries = <<>> THEN <<>>
  ELSE Split(Head(entries)) \o AllTokens(Tail(entries))

FirstInvalid(toks) ==
  toks[CHOOSE i \in DOMAIN toks :
         /\ ~validate_phone(toks[i])
         /\ \A j \in 1..(i - 1) : validate_phone(toks[j])]

\* C4: delete_phone(phone) completes without error and leaves phones equal
\* to the previous sequence without the entries equal to phone, the others in
\* order; with no such entry nothing changes.
C4_DeletePhoneRemoves ==
  [][op'.name = "delete_phone" =>
       /\ op'.exc = "none"
       /\ rec'.phones = Without(rec.phones, op'.arg)]_vars

\* C5: add_phone(phone) never raises; a valid phone gives a success message
\* and becomes the last entry of phones, an invalid one gives an error
\* message and leaves phones unchanged; every entry of phones is a str.
C5_AddPhoneAppendsOrReports ==
  [][op'.name = "add_phone" =>
       /\ op'.exc = "none"
       /\ IF validate_phone(op'.arg)
            THEN /\ IsSuccessMessage(op'.ret)
                 /\ rec'.phones = Append(rec.phones, StrV(op'.arg))
            ELSE /\ IsErrorMessage(op'.ret)
                 /\ rec'.phones = rec.phones
       /\ AllStr(rec'.phones)]_vars

C5_Witness ==
  /\ op.name = "add_phone"
  /\ IsSuccessMessage(op.ret)
  /\ Len(rec.phones) >= 2
  /\ rec.phones[Len(rec.phones)] = StrV(op.arg)

\* C6: edit_phone(old, new) replaces exactly the first entry equal to old by
\* new and changes nothing else of the record; with no entry equal to old it
\* returns a not-found message and the record is unchanged.
C6_EditPhoneFirstOnly ==
  [][op'.name = "edit_phone" =>
       LET old == StrV(op'.arg)
           new == StrV(op'.arg2)
           hits == {i \in DOMAIN rec.phones : rec.phones[i] = old}
       IN /\ op'.exc = "none"
          /\ IF hits # {}
               THEN \E i \in hits :
                      /\ \A j \in hits : i <= j
                      /\ Len(rec'.phones) = Len(rec.phones)
                      /\ rec'.phones[i] = new
                      /\ \A j \in DOMAIN rec.phones :
                           j # i => rec'.phones[j] = rec.phones[j]
                      /\ rec'.name = rec.name /\ rec'.address = rec.address
                      /\ rec'.emails = rec.emails /\ rec'.birthday = rec.birthday
                      /\ IsSuccessMessage(op'.ret)
               ELSE /\ rec' = rec
                    /\ op'.ret = FmtNotFound(op'.arg, rec.name)]_vars

C6_Witness ==
  /\ op.name = "edit_phone"
  /\ IsSuccessMessage(op.ret)
  /\ op.arg # op.arg2
  /\ \E i, j \in DOMAIN rec.phones :
       /\ i < j
       /\ rec.phones[i] = StrV(op.arg2)
       /\ rec.phones[j] = StrV(op.arg)
       /\ \A k \in 1..(i - 1) : rec.phones[k] # StrV(op.arg)

\* C9: Record construction splits every phone entry on commas and whitespace;
\* when every token is a valid phone, phones is the sequence of all tokens of
\* all entries in input order; otherwise construction fails with an error
\* naming the first invalid token and no Record is produced.
C9_ConstructFlattensOrFails ==
  [][op'.name = "Record" =>
       LET toks == AllTokens(op'.arg)
       IN IF \A i \in DOMAIN toks : validate_phone(toks[i])
            THEN /\ op'.exc = "none"
                 /\ IsBound(rec')
                 /\ Len(rec'.phones) = Len(toks)
                 /\ \A i \in DOMAIN toks : rec'.phones[i] = StrV(toks[i])
            ELSE /\ op'.exc = "ValueError"
                 /\ op'.ret = FirstInvalid(toks)
                 /\ ~IsBound(rec')]_vars

C9_Witness ==
  /\ op.name = "Record"
  /\ op.exc = "none"
  /\ Len(op.arg) = 2
  /\ Len(rec.phones) = 3
  /\ rec.phones[1] = rec.phones[3]

(***************************************************************************)
(* Properties of AddressBook                                               *)
(***************************************************************************)
SameBirthday(a, b) ==
  \/ a.t = "None" /\ b.t = "None"
  \/ a.t = "Birthday" /\ b.t = "Birthday" /\ DateOf(a.dt) = DateOf(b.dt)

SameRecord(a, b) ==
  /\ a.name = b.name
  /\ a.address = b.address
  /\ a.phones = b.phones
  /\ a.emails = b.emails
  /\ SameBirthday(a.birthday, b.birthday)

SameBook(x, y) ==
  /\ Len(x) = Len(y)
  /\ \A i \in DOMAIN x : \E j \in DOMAIN y :
       x[i].key = y[j].key /\ SameRecord(x[i].rec, y[j].rec)

\* no birthday of the book is a str: the book is as Record construction,
\* add_record and the Record mutations leave it
NoStrBirthday(b) == \A i \in DOMAIN b : b[i].rec.birthday.t # "str"

Count(seq, x) == Cardinality({i \in DOMAIN seq : seq[i] = x})

Matches(r, query) ==
  \/ Contains(Lower(r.name), Lower(query))
  \/ \E j \in DOMAIN r.phones : Contains(Lower(r.phones[j].v), Lower(query))
  \/ \E j \in DOMAIN r.emails : Contains(Lower(r.emails[j]), Lower(query))

\* C1: save_to_file followed by load_from_file succeeds and yields a book
\* with the same records, each equal field for field to the original.
C1_RoundTrip ==
  [][(/\ op.name = "save_to_file" /\ op.exc = "none"
      /\ NoStrBirthday(op.arg)
      /\ op'.name = "load_from_file")
       => /\ op'.exc = "none"
          /\ SameBook(book', op.arg)]_vars

\* C2: every Record stored in the book under key k has name k.
C2_KeyInvariant == \A i \in DOMAIN book : book[i].rec.name = book[i].key

\* C3: search_records returns every matching Record at most once and no
\* Record that matches in no field.
C3_SearchAtMostOnce ==
  op.name = "search_records" =>
    \A i \in DOMAIN book :
      IF Matches(book[i].rec, op.arg)
        THEN Count(op.ret, book[i].key) <= 1
        ELSE Count(op.ret, book[i].key) = 0

\* C7: get_upcoming_birthday_contacts(days) includes a record with a
\* birthday exactly when days equals its days_to_birthday(), and never a
\* record without a birthday.
C7_UpcomingMatchesDaysToBirthday ==
  op.name = "get_upcoming_birthday_contacts" =>
    \A i \in DOMAIN book :
      LET r == book[i].rec
          d == days_to_birthday(r, now)
          included == op.exc = "none" /\ Count(op.ret, book[i].key) > 0
      IN IF r.birthday.t = "None" THEN ~included
         ELSE (d.exc = "none" /\ ~d.isNone) => (included <=> d.days = op.arg)

\* C8: days_to_birthday() is None without a birthday; with a birthday it is
\* an integer in 0..366 that is 0 exactly when today has the birthday's
\* month and day.
C8_DaysToBirthdayRange ==
  op.name = "days_to_birthday" =>
    LET r == book[IndexOf(book, op.key)].rec
    IN IF r.birthday.t = "None" THEN op.exc = "none" /\ op.ret.isNone
       ELSE r.birthday.t = "Birthday" =>
              /\ op.exc = "none"
              /\ ~op.ret.isNone
              /\ op.ret.days \in 0..366
              /\ op.ret.days = 0 <=>
                   (now.m = r.birthday.dt.m /\ now.d = r.birthday.dt.d)

\* C10: save_to_file leaves every stored Record as it was, the birthday still
\* a Birthday, so that days_to_birthday() and a second save_to_file behave as
\* before the call.
C10_SaveLeavesBookUnchanged ==
  [][(op'.name = "save_to_file" /\ op'.exc = "none") =>
       /\ book' = book
       /\ \A i \in DOMAIN book :
            days_to_birthday(book'[i].rec, now) = days_to_birthday(book[i].rec, now)
       /\ save_to_file(book').exc = save_to_file(book).exc]_vars

====
